---- MODULE Spec2Model ----
(***************************************************************************)
(* Model of the Hostly iCal sync backend (src/index.js): the in-memory     *)
(* propertyCache, the feed parser parseIcal, the sync loop syncAll and the *)
(* HTTP handlers that read and write the cache.  Node runs the handlers on *)
(* one thread: a handler runs without interruption up to its next await on *)
(* a fetch, so one action is one such uninterrupted stretch of code.       *)
(***************************************************************************)
EXTENDS Integers, Sequences, FiniteSets, TLC

\* ------------------------------------------------------------------------
\* Bounds of the model
\* ------------------------------------------------------------------------
\* number of handler invocations (requests and cron ticks) in one behaviour
MaxCalls == 4
\* largest reading of the wall clock (new Date()), in clock steps
MaxClock == 1

\* ------------------------------------------------------------------------
\* Values
\* ------------------------------------------------------------------------
\* Text is a sequence of one-character strings.  An absent text (undefined
\* in JavaScript) is the one-element sequence Missing, whose element is no
\* character, so that it differs from every text.
Missing == <<"<undefined>">>
\* null: what parseIcal returns on failure, and the unset lastSynced
Null == [null |-> TRUE]
\* a Date object at instant t, an absent one, and one holding NaN (an
\* unparsable DTSTART/DTEND)
DateAt(t) == [time |-> t]
Undefined == [undefined |-> TRUE]
NoDate == Undefined
InvalidDate == [nan |-> TRUE]
\* the outcome of a call that threw instead of returning
Thrown == [thrown |-> TRUE]
\* the array of reservations that parseIcal returns on success
Reservations(list) == [reservations |-> list]

Upper == <<"A","B","C","D","E","F","G","H","I","J","K","L","M",
           "N","O","P","Q","R","S","T","U","V","W","X","Y","Z">>
Lower == <<"a","b","c","d","e","f","g","h","i","j","k","l","m",
           "n","o","p","q","r","s","t","u","v","w","x","y","z">>

\* e evaluated once: the one element of the singleton {e}
Only(S) == CHOOSE x \in S : TRUE

\* String.prototype.toLowerCase, one character
LowerOf ==
  [c \in {Upper[i] : i \in 1..26} |-> Lower[CHOOSE i \in 1..26 : Upper[i] = c]]
LowerChar(c) == IF c \in DOMAIN LowerOf THEN LowerOf[c] ELSE c

\* String.prototype.toLowerCase
toLowerCase(s) == Only({[i \in 1..Len(v) |-> LowerChar(v[i])] : v \in {s}})

\* s has sub as a substring starting at position i
MatchAt(s, sub, i) ==
  /\ i >= 1
  /\ i + Len(sub) - 1 <= Len(s)
  /\ \A k \in 1..Len(sub) : s[i + k - 1] = sub[k]

\* String.prototype.includes
includes(s, sub) ==
  \E v \in {s} : \E i \in 1..(Len(v) + 1) : MatchAt(v, sub, i)

\* String.prototype.startsWith
startsWith(s, sub) == MatchAt(s, sub, 1)

\* the regular expression class \s (the characters of it the model uses)
IsSpace(c) == c \in {" ", "\t", "\n", "\r"}

\* the characters that . does not match
IsLineEnd(c) == c \in {"\n", "\r"}

\* String.prototype.trim: the text between its first and its last
\* character that is no white space
trim(s) ==
  Only({ LET solid == {i \in 1..Len(v) : ~IsSpace(v[i])}
         IN IF solid = {} THEN <<>>
            ELSE SubSeq(v, CHOOSE i \in solid : \A j \in solid : i <= j,
                           CHOOSE i \in solid : \A j \in solid : j <= i)
         : v \in {s} })

\* the first position >= i of s that holds no \s character (Len(s)+1 if none)
SkipSpace(s, i) ==
  CHOOSE j \in i..(Len(s) + 1) :
    /\ j = Len(s) + 1 \/ ~IsSpace(s[j])
    /\ \A k \in i..(j - 1) : IsSpace(s[k])

\* the last position of the run of . characters that starts at i
DotRunEnd(s, i) ==
  CHOOSE j \in i..Len(s) :
    /\ j = Len(s) \/ IsLineEnd(s[j + 1])
    /\ \A k \in (i + 1)..j : ~IsLineEnd(s[k])

\* \s*(.+) matched at position i: \s* is greedy and gives characters back
\* until .+ has one character to take; the result is the capture, or
\* Missing when there is no match (a capture holds characters only, so it
\* never equals Missing).
CaptureRest(s, i) ==
  Only({ IF \A j \in i..stop : j > Len(s) \/ IsLineEnd(s[j]) THEN Missing
         ELSE Only({ SubSeq(s, j, DotRunEnd(s, j)) :
                     j \in { CHOOSE x \in i..stop :
                               /\ x <= Len(s) /\ ~IsLineEnd(s[x])
                               /\ \A y \in (x + 1)..stop :
                                    y > Len(s) \/ IsLineEnd(s[y]) } })
         : stop \in {SkipSpace(s, i)} })

\* label \s* [seps] \s* (.+) tried at position i of s, whose lower-case
\* form is low; seps = {} stands for a pattern with no separator class.
LabelMatchAt(s, low, label, seps, i) ==
  IF ~MatchAt(low, label, i) THEN Missing
  ELSE IF seps = {} THEN CaptureRest(s, i + Len(label))
  ELSE Only({ IF d <= Len(s) /\ s[d] \in seps THEN CaptureRest(s, d + 1)
              ELSE Missing
              : d \in {SkipSpace(s, i + Len(label))} })

\* the pattern matches at position i of s
Hit(s, low, labels, seps, i) ==
  \E l \in labels : LabelMatchAt(s, low, l, seps, i) # Missing

\* the capture of the leftmost match of the pattern in s, or Missing
FirstCaptureIn(s, low, labels, seps) ==
  IF \A i \in 1..Len(s) : ~Hit(s, low, labels, seps, i) THEN Missing
  ELSE Only({ LabelMatchAt(s, low,
                CHOOSE l \in labels : LabelMatchAt(s, low, l, seps, i) # Missing,
                seps, i)
              : i \in { CHOOSE x \in 1..Len(s) :
                          /\ Hit(s, low, labels, seps, x)
                          /\ \A y \in 1..(x - 1) : ~Hit(s, low, labels, seps, y) } })

FirstCapture(s, labels, seps) ==
  Only({ Only({ FirstCaptureIn(v, low, labels, seps) : low \in {toLowerCase(v)} })
         : v \in {s} })

TxtReserved == <<"r","e","s","e","r","v","e","d">>
TxtNotAvailable == <<"n","o","t"," ","a","v","a","i","l","a","b","l","e">>
TxtAirbnb == <<"a","i","r","b","n","b">>
TxtGuestColon == <<"g","u","e","s","t",":">>
TxtNameColon == <<"n","a","m","e",":">>
TxtAirbnbGuest == <<"A","i","r","b","n","b"," ","G","u","e","s","t">>
TxtHttps == <<"h","t","t","p","s",":","/","/">>

\* the en dash U+2013, one character of text
EnDash == "<en-dash>"

\* summary.match(/reserved\s*[-<en-dash>]\s*(.+)/i), the capture group or Missing
reservedMatch(summary) == FirstCapture(summary, {TxtReserved}, {"-", EnDash})

\* event.description.match(/(?:guest|name):\s*(.+)/i)
descMatch(description) ==
  FirstCapture(description, {TxtGuestColon, TxtNameColon}, {})

\* ------------------------------------------------------------------------
\* parseIcal (src/index.js 17-72)
\* ------------------------------------------------------------------------
\* Instants are whole hours since the epoch; a day has HoursPerDay of them.
HoursPerDay == 24

\* what ical.async.fromURL yields when the fetch or the decoding fails
FetchFailed == [fetchFailed |-> TRUE]
\* and when it succeeds: the events of the feed in enumeration order
Fetched(events) == [events |-> events]

\* Date.prototype.toISOString: the UTC date, "T", the time of day
toISOString(t) ==
  <<ToString(t \div HoursPerDay), "T", ToString(t % HoursPerDay)>>

\* toISOString().split("T")[0]: the date-only part, as a day number
isoDate(t) == t \div HoursPerDay

\* Math.round(x / y) for y > 0: the nearest integer, halves towards +infinity
RoundDiv(x, y) == (2 * x + y) \div (2 * y)

\* a field that JavaScript treats as false (undefined, null, "")
Falsy(v) == v = Missing \/ v = <<>>

\* const summary = event.summary || ""
summaryOf(event) == IF Falsy(event.summary) THEN <<>> ELSE event.summary

\* lines 29-31 read as (a || b) && !c
isBlockedGrouped(summary) ==
  \E low \in {toLowerCase(summary)} :
    /\ includes(low, TxtNotAvailable) \/ includes(low, TxtAirbnb)
    /\ ~includes(low, TxtReserved)

\* the isBlocked test of lines 29-31 (&& binds tighter than ||)
isBlocked(summary) ==
  \E low \in {toLowerCase(summary)} :
    \/ includes(low, TxtNotAvailable)
    \/ /\ includes(low, TxtAirbnb)
       /\ ~includes(low, TxtReserved)

\* lines 42-50 with the description consulted before the summary
guestNameDescriptionFirst(event) ==
  Only({ IF ~Falsy(event.description) /\ inDesc # Missing THEN trim(inDesc)
         ELSE Only({ IF matched # Missing THEN trim(matched)
                     ELSE TxtAirbnbGuest
                     : matched \in {reservedMatch(summaryOf(event))} })
         : inDesc \in {IF Falsy(event.description) THEN Missing
                        ELSE descMatch(event.description)} })

\* lines 42-50
guestNameOf(event) ==
  Only({ IF matched # Missing THEN trim(matched)
         ELSE IF Falsy(event.description) THEN TxtAirbnbGuest
         ELSE Only({ IF inDesc # Missing THEN trim(inDesc)
                     ELSE TxtAirbnbGuest
                     : inDesc \in {descMatch(event.description)} })
         : matched \in {reservedMatch(summaryOf(event))} })

\* const nights = Math.round((checkOut - checkIn) / (1000 * 60 * 60 * 24))
nightsOf(checkIn, checkOut) == RoundDiv(checkOut - checkIn, HoursPerDay)

\* the object pushed at lines 54-64
reservationOf(event, propertyId) ==
  [ id         |-> IF Falsy(event.uid)
                     THEN propertyId \o <<"-">> \o toISOString(event.start.time)
                     ELSE event.uid,
    propertyId |-> propertyId,
    guestName  |-> guestNameOf(event),
    checkIn    |-> isoDate(event.start.time),
    checkOut   |-> isoDate(event.end.time),
    nights     |-> nightsOf(event.start.time, event.end.time),
    total      |-> 0,
    source     |-> "airbnb",
    summary    |-> summaryOf(event) ]

\* one pass of the loop body, lines 23-64: Skip for continue, Thrown when
\* toISOString meets an invalid date, else the reservation pushed
Skip == [skip |-> TRUE]
eventStep(event, propertyId) ==
  IF event.type # "VEVENT" THEN Skip
  ELSE IF isBlocked(summaryOf(event)) THEN Skip
  ELSE IF event.start = NoDate \/ event.end = NoDate THEN Skip
  ELSE IF event.start = InvalidDate \/ event.end = InvalidDate THEN Thrown
  ELSE reservationOf(event, propertyId)

\* the loop of lines 22-65 over events: Thrown when a pass throws, else
\* the reservations pushed, in feed order
parseLoop(events, propertyId) ==
  Only({ IF \E i \in 1..Len(steps) : steps[i] = Thrown THEN Thrown
         ELSE Reservations(SelectSeq(steps, LAMBDA r : r # Skip))
         : steps \in {[i \in 1..Len(events) |->
                         eventStep(events[i], propertyId)]} })

\* the try block, lines 19-67
parseTry(fetched, propertyId) ==
  IF fetched = FetchFailed THEN Thrown
  ELSE parseLoop(fetched.events, propertyId)

\* parseIcal with the catch of lines 68-71 left out
parseIcalNoCatch(fetched, propertyId, propertyName) ==
  parseTry(fetched, propertyId)

\* parseIcal: fetched is what ical.async.fromURL(icalUrl) yielded; the
\* outcome is Reservations(list) or Null, never Thrown
parseIcal(fetched, propertyId, propertyName) ==
  Only({ IF tried = Thrown THEN Null ELSE tried
         : tried \in {parseTry(fetched, propertyId)} })

\* ------------------------------------------------------------------------
\* The world outside the program: request bodies and published feeds
\* ------------------------------------------------------------------------
\* property ids, in the order for...in enumerates integer-like keys
IdList == << <<"1">>, <<"2">> >>
Ids == {IdList[i] : i \in 1..Len(IdList)}

UrlA == <<"h","t","t","p","s",":","/","/","a">>
UrlB == <<"h","t","t","p","s",":","/","/","b">>
UrlHttp == <<"h","t","t","p",":","/","/","a">>
NameLoft == <<"L","o","f","t">>

\* the urls a POST /properties body can hold
UrlInputs == {UrlA, UrlB, UrlHttp, Missing}

\* req.body of POST /properties: { propertyId, name, icalUrl }
Body(propertyId, name, icalUrl) ==
  [propertyId |-> propertyId, name |-> name, icalUrl |-> icalUrl]

\* the bodies sent: each id with the first feed and no name or with the
\* second feed and a name, and bodies that lack a field or are not https
Bodies ==
  {Body(p, Missing, UrlA) : p \in Ids}
    \cup {Body(p, NameLoft, UrlB) : p \in Ids}
    \cup {Body(Missing, NameLoft, UrlA), Body(<<"1">>, NameLoft, Missing),
          Body(Missing, Missing, Missing), Body(<<"1">>, Missing, UrlHttp),
          Body(<<"2">>, NameLoft, UrlHttp)}

Event(type, summary, description, start, end, uid) ==
  [type |-> type, summary |-> summary, description |-> description,
   start |-> start, end |-> end, uid |-> uid]

\* the feed at UrlA: a two-night booking, a blackout, a time zone entry and
\* a same-day booking with no uid
FeedA ==
  << Event("VEVENT", <<"R","e","s","e","r","v","e","d"," ","-"," ","J","a","n","e"," ","D","o","e">>, Missing, DateAt(0), DateAt(48), <<"u","1">>),
     Event("VEVENT", <<"A","i","r","b","n","b"," ","(","N","o","t"," ","a","v","a","i","l","a","b","l","e",")">>, Missing, DateAt(48), DateAt(72), <<"u","2">>),
     Event("VTIMEZONE", Missing, Missing, NoDate, NoDate, Missing),
     Event("VEVENT", <<"R","e","s","e","r","v","e","d"," ","-"," ","A","i","r","b","n","b"," ","(","H","M","1","2","3","4",")">>, Missing, DateAt(82), DateAt(87), Missing) >>

\* the feed at UrlB: one booking whose guest is named in the description
FeedB ==
  << Event("VEVENT", <<"S","t","a","y">>, <<"G","u","e","s","t",":"," ","B","o","b">>, DateAt(38), DateAt(60), <<"u","3">>) >>

\* UrlB while its publisher emits an unparsable DTEND
FeedBadDate ==
  << Event("VEVENT", <<"S","t","a","y">>, <<"G","u","e","s","t",":"," ","B","o","b">>, DateAt(38), InvalidDate, <<"u","3">>) >>

\* a feed while nothing is booked: a blackout and a time zone entry
FeedBlackout ==
  << Event("VEVENT", <<"A","i","r","b","n","b"," ","(","N","o","t"," ","a","v","a","i","l","a","b","l","e",")">>, Missing, DateAt(0), DateAt(24), <<"u","4">>),
     Event("VTIMEZONE", Missing, Missing, NoDate, NoDate, Missing) >>

\* a feed whose only VEVENT is a blackout with an unparsable DTEND
FeedBlackoutBadDate ==
  << Event("VEVENT", <<"B","l","o","c","k","e","d"," ","(","N","o","t"," ","a","v","a","i","l","a","b","l","e",")">>, Missing, DateAt(0), InvalidDate, <<"u","5">>) >>

\* what the one url of the serial runs can yield over time
SerialFetched ==
  {FetchFailed, Fetched(<<>>), Fetched(FeedA), Fetched(FeedB),
   Fetched(FeedBadDate), Fetched(FeedBlackout), Fetched(FeedBlackoutBadDate)}

\* the outcomes of ical.async.fromURL(icalUrl): the fetch fails, or yields
\* one of the documents the URL publishes
Published(icalUrl) ==
  IF icalUrl = UrlA THEN {Fetched(FeedA)}
  ELSE IF icalUrl = UrlB THEN {Fetched(FeedB), Fetched(FeedBadDate)}
  ELSE {}
FetchOutcomes(icalUrl) == Published(icalUrl) \cup {FetchFailed}

\* every outcome of a fetch, and parseIcal of each for each property id
\* (parseIcal reads nothing but its arguments and does not use the name)
AllFetched == UNION {FetchOutcomes(u) : u \in UrlInputs} \cup SerialFetched
parsed ==
  [p \in Ids |-> [f \in AllFetched |-> parseIcal(f, p, Missing)]]

\* ------------------------------------------------------------------------
\* State
\* ------------------------------------------------------------------------
VARIABLES
  propertyCache,  \* line 14: propertyId -> [icalUrl, name, reservations,
                  \* lastSynced], Undefined for a key the object lacks
  now,            \* the wall clock that new Date() reads
  sync,           \* the invocations of syncAll: position and locals
  reg,            \* the POST /properties handlers: position and locals
  lastOutcome,    \* the response the latest step sent (how a handler ended)
  lastLog,        \* the last line the latest step wrote to the console
  calls,          \* handler invocations so far
  lastWrite,      \* history: the pair each property's last write-back stored
  raced,          \* history: properties whose fetches overlapped in the
                  \* busy period that is running or has just ended
  probe           \* input and output of a stand-alone call of parseIcal

vars == <<propertyCache, now, sync, reg, lastOutcome, lastLog, calls,
          lastWrite, raced, probe>>

\* syncAll runs from the hourly cron tick (line 91) and from POST /sync
\* (line 170); one invocation of each may be in flight.
Runs == {"cron", "manual"}
\* POST /properties requests that may be in flight at once
Handlers == {"reg1"}

\* new Date().toISOString() as stored in lastSynced
Stamp(t) == [time |-> t]

\* a run or a handler that holds no locals
IdleRun ==
  [pc |-> "idle", keys |-> <<>>, stale |-> FALSE, propertyId |-> Missing,
   icalUrl |-> Missing, entryName |-> Missing]
IdleHandler == [pc |-> "idle", propertyId |-> Missing, icalUrl |-> Missing]
NoProbe == [idle |-> TRUE]

\* the end of a handler: op names the route (or the cron job), status is
\* the HTTP status sent, "done" for the cron job, or "fault" when the
\* handler threw and sent nothing
Outcome(op, status) == [op |-> op, status |-> status]
OpOf(r) == IF r = "cron" THEN "cron syncAll" ELSE "POST /sync"
\* a step that ends no handler, and one that logs nothing
NoOutcome == Outcome("none", "none")
NoLog == [mark |-> "none"]

Init ==
  /\ propertyCache = [p \in Ids |-> Undefined]
  /\ now = 0
  /\ sync = [r \in Runs |-> IdleRun]
  /\ reg = [h \in Handlers |-> IdleHandler]
  /\ lastOutcome = NoOutcome
  /\ lastLog = NoLog
  /\ calls = 0
  /\ lastWrite = [p \in Ids |-> Null]
  /\ raced = {}
  /\ probe = NoProbe

\* ------------------------------------------------------------------------
\* Helpers of the handlers
\* ------------------------------------------------------------------------
\* Object.keys / for...in order of the cache object
Keys(cache) == SelectSeq(IdList, LAMBDA p : cache[p] # Undefined)

\* the runs and handlers whose fetch for property p is in flight
Fetchers(p) ==
  {r \in Runs : sync[r].pc = "fetching" /\ sync[r].propertyId = p}
  \cup {h \in Handlers : reg[h].pc = "fetching" /\ reg[h].propertyId = p}

\* for...in, line 77: the snapshot of keys taken when the loop began, from
\* its next unvisited key on; a key deleted from the enumerated object
\* before its turn is passed over.  stale: the loop enumerates an object
\* that POST /reset has replaced, which nothing deletes from any more.
RECURSIVE forInNext(_, _, _)
forInNext(keys, stale, cache) ==
  IF keys = <<>> THEN <<>>
  ELSE IF stale \/ cache[Head(keys)] # Undefined THEN keys
  ELSE forInNext(Tail(keys), stale, cache)

\* lines 77-79: the loop moves to its next key and calls parseIcal, which
\* suspends on the fetch (pc "fetching"); or the loop ends (pc "done"); or
\* entry is undefined and entry.icalUrl throws (pc "faulted")
loopIteration(keys, stale, cache) ==
  LET ks == forInNext(keys, stale, cache)
  IN IF ks = <<>> THEN [IdleRun EXCEPT !.pc = "done"]
     ELSE IF cache[Head(ks)] = Undefined
       THEN [IdleRun EXCEPT !.pc = "faulted"]
     ELSE [pc |-> "fetching", keys |-> Tail(ks), stale |-> stale,
           propertyId |-> Head(ks),
           icalUrl |-> cache[Head(ks)].icalUrl,
           entryName |-> cache[Head(ks)].name]

\* a write-back that stores a fresh object under the key instead of
\* assigning the two fields of the entry that is there
writeBackRecreating(cache, propertyId, reservations, t) ==
  [threw |-> FALSE,
   cache |-> [cache EXCEPT ![propertyId] =
                [icalUrl |-> Missing, name |-> Missing,
                 reservations |-> reservations, lastSynced |-> Stamp(t)]]]

\* lines 81-82 and 124-125 with the new reservations merged into the old
writeBackMerging(cache, propertyId, reservations, t) ==
  IF cache[propertyId] = Undefined
    THEN [threw |-> TRUE, cache |-> cache]
    ELSE [threw |-> FALSE,
          cache |-> [cache EXCEPT ![propertyId] =
                       [@ EXCEPT !.reservations = @ \o reservations,
                                 !.lastSynced = Stamp(t)]]]

\* lines 81-82 and 124-125: the two assignments of a write-back, made
\* through propertyCache[propertyId]; when the key is gone that is
\* undefined and the first assignment throws a TypeError
writeBack(cache, propertyId, reservations, t) ==
  IF cache[propertyId] = Undefined
    THEN [threw |-> TRUE, cache |-> cache]
    ELSE [threw |-> FALSE,
          cache |-> [cache EXCEPT ![propertyId] =
                       [@ EXCEPT !.reservations = reservations,
                                 !.lastSynced = Stamp(t)]]]

\* lines 80-86 with an empty list taken for a failure
syncApplyNonEmpty(cache, propertyId, result, t) ==
  IF result # Null /\ result.reservations # <<>>
    THEN writeBack(cache, propertyId, result.reservations, t)
    ELSE [threw |-> FALSE, cache |-> cache]

\* lines 80-86: what syncAll does to the cache with parseIcal's result
syncApply(cache, propertyId, result, t) ==
  IF result # Null
    THEN writeBack(cache, propertyId, result.reservations, t)
    ELSE [threw |-> FALSE, cache |-> cache]

\* lines 83 and 85: the line syncAll logs for the property
syncLog(entryName, result) ==
  IF result # Null
    THEN [mark |-> "ok", name |-> entryName,
          count |-> Len(result.reservations)]
    ELSE [mark |-> "failed", name |-> entryName]

\* name || `Property ${propertyId}`
nameOrDefault(name, propertyId) ==
  IF Falsy(name)
    THEN <<"P","r","o","p","e","r","t","y"," ">> \o propertyId
    ELSE name

\* lines 114-119: the entry that POST /properties stores
registeredEntry(cache, propertyId, name, icalUrl) ==
  [ icalUrl      |-> icalUrl,
    name         |-> nameOrDefault(name, propertyId),
    reservations |-> IF cache[propertyId] # Undefined
                       THEN cache[propertyId].reservations
                       ELSE <<>>,
    lastSynced   |-> Null ]

\* the two messages of the 400 response (lines 106 and 110), and no error
ErrRequired == "propertyId and icalUrl are required"
ErrHttps == "icalUrl must be a valid https:// URL"
NoError == "none"

\* lines 105-111 without the test of the scheme
validationErrorNoScheme(propertyId, icalUrl) ==
  IF Falsy(propertyId) \/ Falsy(icalUrl) THEN ErrRequired ELSE NoError

\* lines 105-111: the error a body is rejected with
validationError(propertyId, icalUrl) ==
  IF Falsy(propertyId) \/ Falsy(icalUrl) THEN ErrRequired
  ELSE IF ~startsWith(icalUrl, TxtHttps) THEN ErrHttps
  ELSE NoError

\* history: the properties with two or more fetches in flight
Racing == {p \in Ids : Cardinality(Fetchers(p)) >= 2}
\* history: raced after a step of the program
RacedNext == {p \in raced : Fetchers(p) # {}} \cup Racing'

\* a run that left the loop holds no locals any more; its end is recorded
Settle(run) == IF run.pc = "fetching" THEN run ELSE IdleRun
EndOf(r, run) ==
  IF run.pc = "done"
    THEN Outcome(OpOf(r), IF r = "cron" THEN "done" ELSE "200")
  ELSE IF run.pc = "faulted" THEN Outcome(OpOf(r), "fault")
  ELSE NoOutcome

\* ------------------------------------------------------------------------
\* syncAll (lines 75-88), started by cron (line 91) or POST /sync (169-178)
\* ------------------------------------------------------------------------
\* the call of syncAll up to its first await.  POST /sync awaits syncAll
\* and then answers { success: true, syncStatus } (status 200); when
\* syncAll throws, the handler sends nothing.
syncAllStart(r) ==
  /\ calls < MaxCalls
  /\ sync[r].pc = "idle"
  /\ LET run == loopIteration(Keys(propertyCache), FALSE, propertyCache)
     IN /\ sync' = [sync EXCEPT ![r] = Settle(run)]
        /\ lastOutcome' = EndOf(r, run)
  /\ lastLog' = [mark |-> "syncing"]
  /\ calls' = calls + 1
  /\ UNCHANGED <<propertyCache, now, reg, lastWrite, probe>>
  /\ raced' = RacedNext

\* cron.schedule("0 * * * *", syncAll)
CronTick == syncAllStart("cron")

\* POST /sync
PostSync == syncAllStart("manual")

\* lines 79-87 from the return of parseIcal to the next await: the cache,
\* the run and the console afterwards
syncAllResumed(run, cache, result, t) ==
  IF result = Thrown
    THEN [cache |-> cache, run |-> [IdleRun EXCEPT !.pc = "faulted"],
          log |-> NoLog, wrote |-> FALSE]
  ELSE LET applied == syncApply(cache, run.propertyId, result, t)
       IN IF applied.threw
            THEN [cache |-> cache, run |-> [IdleRun EXCEPT !.pc = "faulted"],
                  log |-> NoLog, wrote |-> FALSE]
            ELSE [cache |-> applied.cache,
                  run |-> loopIteration(run.keys, run.stale, applied.cache),
                  log |-> syncLog(run.entryName, result),
                  wrote |-> result # Null]

\* history: lastWrite after a write-back of reservations for propertyId
Written(propertyId, wrote, cache) ==
  IF wrote
    THEN [lastWrite EXCEPT ![propertyId] =
            [reservations |-> cache[propertyId].reservations,
             lastSynced |-> cache[propertyId].lastSynced]]
    ELSE lastWrite

\* the fetch of run r returns
SyncAllResume(r) ==
  /\ sync[r].pc = "fetching"
  /\ \E fetched \in FetchOutcomes(sync[r].icalUrl) :
       LET result == parsed[sync[r].propertyId][fetched]
           next == syncAllResumed(sync[r], propertyCache, result, now)
       IN /\ propertyCache' = next.cache
          /\ sync' = [sync EXCEPT ![r] = Settle(next.run)]
          /\ lastOutcome' = EndOf(r, next.run)
          /\ lastLog' = next.log
          /\ lastWrite' = Written(sync[r].propertyId, next.wrote, next.cache)
  /\ UNCHANGED <<now, reg, calls, probe>>
  /\ raced' = RacedNext

\* ------------------------------------------------------------------------
\* POST /properties (lines 102-136)
\* ------------------------------------------------------------------------
\* the 400 response: res.status(400).json({ error })
Rejected(error) ==
  [op |-> "POST /properties", status |-> "400", error |-> error]

\* the response of lines 126-132 (name is the request's and not kept)
Registered(propertyId, reservationCount, lastSynced) ==
  [op |-> "POST /properties", status |-> "200", propertyId |-> propertyId,
   reservationCount |-> reservationCount, lastSynced |-> lastSynced]

\* lines 103-122: validation, registration and the call of parseIcal, up to
\* the await
PostProperties(h) ==
  /\ calls < MaxCalls
  /\ reg[h].pc = "idle"
  /\ calls' = calls + 1
  /\ \E body \in Bodies :
       IF validationError(body.propertyId, body.icalUrl) # NoError
         THEN /\ lastOutcome' =
                   Rejected(validationError(body.propertyId, body.icalUrl))
              /\ UNCHANGED <<propertyCache, reg>>
         ELSE /\ propertyCache' =
                   [propertyCache EXCEPT ![body.propertyId] =
                      registeredEntry(propertyCache, body.propertyId,
                                      body.name, body.icalUrl)]
              /\ reg' = [reg EXCEPT ![h] =
                           [pc |-> "fetching",
                            propertyId |-> body.propertyId,
                            icalUrl |-> body.icalUrl]]
              /\ lastOutcome' = NoOutcome
  /\ lastLog' = NoLog
  /\ UNCHANGED <<now, sync, lastWrite, probe>>
  /\ raced' = RacedNext

\* lines 122-135 with the registration undone when the sync fails
postPropertiesResumedRollingBack(handler, cache, result, t) ==
  IF result = Thrown THEN [cache |-> cache, status |-> "fault"]
  ELSE IF result # Null
    THEN LET applied == writeBack(cache, handler.propertyId,
                                  result.reservations, t)
         IN IF applied.threw
              THEN [cache |-> cache, status |-> "fault"]
              ELSE [cache |-> applied.cache, status |-> "200"]
  ELSE [cache |-> [cache EXCEPT ![handler.propertyId] = Undefined],
        status |-> "500"]

\* lines 122-135 from the return of parseIcal: the cache and the response
\* ("200", "500", or "fault" when the handler throws)
postPropertiesResumed(handler, cache, result, t) ==
  IF result = Thrown THEN [cache |-> cache, status |-> "fault"]
  ELSE IF result # Null
    THEN LET applied == writeBack(cache, handler.propertyId,
                                  result.reservations, t)
         IN IF applied.threw
              THEN [cache |-> cache, status |-> "fault"]
              ELSE [cache |-> applied.cache, status |-> "200"]
  ELSE [cache |-> cache, status |-> "500"]

\* the fetch of handler h returns
PostPropertiesResume(h) ==
  /\ reg[h].pc = "fetching"
  /\ \E fetched \in FetchOutcomes(reg[h].icalUrl) :
       LET result == parsed[reg[h].propertyId][fetched]
           next == postPropertiesResumed(reg[h], propertyCache, result, now)
       IN /\ propertyCache' = next.cache
          /\ reg' = [reg EXCEPT ![h] = IdleHandler]
          /\ lastOutcome' =
               IF next.status = "200"
                 THEN Registered(reg[h].propertyId,
                                 Len(result.reservations),
                                 next.cache[reg[h].propertyId].lastSynced)
                 ELSE Outcome("POST /properties", next.status)
          /\ lastLog' =
               IF result = Null
                 THEN [mark |-> "parse error",
                       propertyId |-> reg[h].propertyId]
                 ELSE NoLog
          /\ lastWrite' =
               Written(reg[h].propertyId, next.status = "200", next.cache)
  /\ UNCHANGED <<now, sync, calls, probe>>
  /\ raced' = RacedNext

\* ------------------------------------------------------------------------
\* POST /reset (181-184) and DELETE /properties/:propertyId (188-196)
\* ------------------------------------------------------------------------
\* the keys of a run's snapshot that its enumerated object still holds
RECURSIVE present(_, _)
present(keys, cache) ==
  IF keys = <<>> THEN <<>>
  ELSE IF cache[Head(keys)] # Undefined
    THEN <<Head(keys)>> \o present(Tail(keys), cache)
  ELSE present(Tail(keys), cache)

\* propertyCache = {}: a loop in flight keeps enumerating the old object
PostReset ==
  /\ calls < MaxCalls
  /\ calls' = calls + 1
  /\ propertyCache' = [p \in Ids |-> Undefined]
  /\ sync' = [r \in Runs |->
                IF sync[r].pc = "fetching" /\ ~sync[r].stale
                  THEN [sync[r] EXCEPT
                          !.keys = present(sync[r].keys, propertyCache),
                          !.stale = TRUE]
                  ELSE sync[r]]
  /\ lastOutcome' = Outcome("POST /reset", "200")
  /\ lastLog' = NoLog
  /\ lastWrite' = [p \in Ids |-> Null]
  /\ UNCHANGED <<now, reg, probe>>
  /\ raced' = RacedNext

\* the responses of DELETE, recorded with the id of the path
Deleted(propertyId, status) ==
  [op |-> "DELETE /properties", status |-> status, propertyId |-> propertyId]

\* line 190 with the test left out
foundAlways(cache, propertyId) == TRUE

\* line 190: if (propertyCache[propertyId])
found(cache, propertyId) == cache[propertyId] # Undefined

DeleteProperty(propertyId) ==
  /\ calls < MaxCalls
  /\ calls' = calls + 1
  /\ IF found(propertyCache, propertyId)
       THEN /\ propertyCache' =
                 [propertyCache EXCEPT ![propertyId] = Undefined]
            /\ lastOutcome' = Deleted(propertyId, "200")
            /\ lastWrite' = [lastWrite EXCEPT ![propertyId] = Null]
       ELSE /\ lastOutcome' = Deleted(propertyId, "404")
            /\ UNCHANGED <<propertyCache, lastWrite>>
  /\ lastLog' = NoLog
  /\ UNCHANGED <<now, sync, reg, probe>>
  /\ raced' = RacedNext

\* time passes
ClockTick ==
  /\ now < MaxClock
  /\ now' = now + 1
  /\ UNCHANGED <<propertyCache, sync, reg, lastOutcome, lastLog, calls,
                 lastWrite, raced, probe>>

Next ==
  \/ CronTick
  \/ PostSync
  \/ \E r \in Runs : SyncAllResume(r)
  \/ \E h \in Handlers : PostProperties(h)
  \/ \E h \in Handlers : PostPropertiesResume(h)
  \/ PostReset
  \/ \E p \in Ids : DeleteProperty(p)
  \/ ClockTick

Spec == Init /\ [][Next]_vars

\* ------------------------------------------------------------------------
\* parseIcal on its own: one call on a feed drawn from bounded sets
\* ------------------------------------------------------------------------
ProbeTypes == {"VEVENT", "VTIMEZONE"}
ProbeSummaries ==
  { Missing,
    <<"R","e","s","e","r","v","e","d"," ","-"," ","J","a","n","e"," ","D","o","e">>,
    <<"A","i","r","b","n","b"," ","(","N","o","t"," ","a","v","a","i","l","a","b","l","e",")">>,
    <<"R","e","s","e","r","v","e","d"," ","-"," ","A","i","r","b","n","b"," ","(","H","M","1","2","3","4",")">>,
    <<"S","t","a","y">>,
    <<"r","e","s","e","r","v","e","d"," ","-"," "," ">>,
    <<"R","E","S","E","R","V","E","D">>,
    <<"N","o","t"," ","A","v","a","i","l","a","b","l","e">>,
    <<"R","e","s","e","r","v","e","d"," ","(","N","o","t"," ","a","v","a","i","l","a","b","l","e",")">>,
    <<"R","e","s","e","r","v","e","d"," ",EnDash," ","A","n","n">> }
ProbeDescriptions ==
  { Missing,
    <<"G","u","e","s","t",":"," ","B","o","b">>,
    <<"n","a","m","e",":"," "," ">>,
    <<"P","h","o","n","e",":"," ","1">> }
ProbeStarts == {NoDate, InvalidDate, DateAt(0), DateAt(10), DateAt(20)}
ProbeEnds ==
  {NoDate, InvalidDate, DateAt(0), DateAt(15), DateAt(24), DateAt(34),
   DateAt(48)}
ProbeUids == {Missing, <<"u","1">>}

ProbeEvents ==
  { Event(type, summary, description, start, end, uid) :
      type \in ProbeTypes, summary \in ProbeSummaries,
      description \in ProbeDescriptions, start \in ProbeStarts,
      end \in ProbeEnds, uid \in ProbeUids }

\* the events of the two-event feeds: bookings that may share a uid or,
\* without one, a start
PairEvents ==
  { Event("VEVENT", summary, Missing, start, DateAt(48), uid) :
      summary \in {<<"R","e","s","e","r","v","e","d"," ","-"," ","J","a","n","e"," ","D","o","e">>, <<"S","t","a","y">>},
      start \in {DateAt(0), DateAt(10)}, uid \in ProbeUids }

ProbeFeeds ==
  {<<e>> : e \in ProbeEvents} \cup {<<e, f>> : e \in PairEvents, f \in PairEvents}

Pending == [pending |-> TRUE]

ParseInit ==
  /\ propertyCache = [p \in Ids |-> Undefined]
  /\ now = 0
  /\ sync = [r \in Runs |-> IdleRun]
  /\ reg = [h \in Handlers |-> IdleHandler]
  /\ lastOutcome = NoOutcome
  /\ lastLog = NoLog
  /\ calls = 0
  /\ lastWrite = [p \in Ids |-> Null]
  /\ raced = {}
  /\ probe \in [events : ProbeFeeds, propertyId : Ids, out : {Pending}]

\* the call parseIcal(icalUrl, propertyId, name) whose fetch yields the feed
ParseCall ==
  /\ probe.out = Pending
  /\ probe' = [probe EXCEPT
                 !.out = parseIcal(Fetched(probe.events), probe.propertyId,
                                   Missing)]
  /\ UNCHANGED <<propertyCache, now, sync, reg, lastOutcome, lastLog, calls,
                 lastWrite, raced>>

ParseNext == ParseCall

ParseSpec == ParseInit /\ [][ParseNext]_vars

\* ------------------------------------------------------------------------
\* The server used by one client at a time: each request is answered, and
\* each run of syncAll has ended, before the next one starts.  One property
\* is registered, at UrlA, whose publisher changes the document from time
\* to time.  probe holds the document that UrlA yields now, the property
\* and the number of write-backs made since the document last changed.
\* ------------------------------------------------------------------------
SerialInit ==
  /\ propertyCache = [p \in Ids |-> Undefined]
  /\ now = 0
  /\ sync = [r \in Runs |-> IdleRun]
  /\ reg = [h \in Handlers |-> IdleHandler]
  /\ lastOutcome = NoOutcome
  /\ lastLog = NoLog
  /\ calls = 0
  /\ lastWrite = [p \in Ids |-> Null]
  /\ raced = {}
  /\ probe \in [fetched : SerialFetched, propertyId : Ids,
                name : {Missing, NameLoft}, synced : {0}]

\* the publisher of UrlA replaces the document
Publish ==
  /\ calls < MaxCalls
  /\ \E fetched \in SerialFetched \ {probe.fetched} :
       probe' = [probe EXCEPT !.fetched = fetched, !.synced = 0]
  /\ UNCHANGED <<propertyCache, now, sync, reg, lastOutcome, lastLog, calls,
                 lastWrite, raced>>

\* POST /properties (102-136) with its fetch awaited at once
SerialRegister ==
  /\ calls < MaxCalls
  /\ calls' = calls + 1
  /\ \E body \in {Body(probe.propertyId, probe.name, UrlA)},
        result \in {parsed[probe.propertyId][probe.fetched]} :
       LET registered ==
             [propertyCache EXCEPT ![body.propertyId] =
                registeredEntry(propertyCache, body.propertyId, body.name,
                                body.icalUrl)]
           handler == [pc |-> "fetching", propertyId |-> body.propertyId,
                       icalUrl |-> body.icalUrl]
           next == postPropertiesResumed(handler, registered, result, now)
       IN /\ validationError(body.propertyId, body.icalUrl) = NoError
          /\ propertyCache' = next.cache
          /\ lastOutcome' =
               IF next.status = "200"
                 THEN Registered(body.propertyId, Len(result.reservations),
                                 next.cache[body.propertyId].lastSynced)
                 ELSE Outcome("POST /properties", next.status)
          /\ lastLog' =
               IF result = Null
                 THEN [mark |-> "parse error", propertyId |-> body.propertyId]
                 ELSE NoLog
          /\ lastWrite' =
               Written(body.propertyId, next.status = "200", next.cache)
          /\ probe' = [probe EXCEPT
                         !.synced = IF next.status = "200" THEN @ + 1 ELSE @]
  /\ UNCHANGED <<now, sync, reg, raced>>

\* lines 77-87 with each fetch awaited at once, every one yielding fetched:
\* the cache, the run and the console when the loop has ended
RECURSIVE syncAllAwaited(_, _, _, _)
syncAllAwaited(run, cache, fetched, t) ==
  IF run.pc # "fetching"
    THEN [cache |-> cache, run |-> run, log |-> [mark |-> "syncing"],
          wrote |-> FALSE]
    ELSE LET next == syncAllResumed(run, cache,
                                    parsed[run.propertyId][fetched], t)
         IN IF next.run.pc = "fetching"
              THEN syncAllAwaited(next.run, next.cache, fetched, t)
              ELSE next

\* a run of syncAll (75-88), by cron or POST /sync, to its end
SerialSyncAll(r) ==
  /\ calls < MaxCalls
  /\ calls' = calls + 1
  /\ \E run \in {loopIteration(Keys(propertyCache), FALSE, propertyCache)} :
       \E next \in {syncAllAwaited(run, propertyCache, probe.fetched, now)} :
         /\ propertyCache' = next.cache
         /\ lastOutcome' = EndOf(r, next.run)
         /\ lastLog' = next.log
         /\ lastWrite' = Written(probe.propertyId, next.wrote, next.cache)
         /\ probe' = [probe EXCEPT
                        !.synced = IF next.wrote THEN @ + 1 ELSE @]
  /\ UNCHANGED <<now, sync, reg, raced>>

\* lines 148-153 and 201-206: what the listings tell of a property
statusOf(cache, pid) ==
  [propertyId |-> pid, name |-> cache[pid].name,
   lastSynced |-> cache[pid].lastSynced,
   reservationCount |-> Len(cache[pid].reservations)]

\* lines 201-206: Object.entries(propertyCache).map(...)
listProperties(cache) ==
  [i \in 1..Len(Keys(cache)) |-> statusOf(cache, Keys(cache)[i])]

\* lines 155-157 over the keys: the reservations of the properties that
\* pass the filter of the query, concatenated
RECURSIVE allReservations(_, _, _)
allReservations(keys, cache, propertyId) ==
  IF keys = <<>> THEN <<>>
  ELSE (IF Falsy(propertyId) \/ Head(keys) = propertyId
          THEN cache[Head(keys)].reservations
          ELSE <<>>)
       \o allReservations(Tail(keys), cache, propertyId)

\* GET /properties (200-208)
GetProperties ==
  /\ calls < MaxCalls
  /\ calls' = calls + 1
  /\ lastOutcome' = [op |-> "GET /properties", status |-> "200",
                     properties |-> listProperties(propertyCache)]
  /\ lastLog' = NoLog
  /\ UNCHANGED <<propertyCache, now, sync, reg, lastWrite, raced, probe>>

\* GET /reservations?propertyId= (140-165)
GetReservations(propertyId) ==
  /\ calls < MaxCalls
  /\ calls' = calls + 1
  /\ lastOutcome' =
       [op |-> "GET /reservations", status |-> "200",
        reservations |->
          allReservations(Keys(propertyCache), propertyCache, propertyId),
        syncStatus |-> listProperties(propertyCache),
        totalProperties |-> Len(Keys(propertyCache))]
  /\ lastLog' = NoLog
  /\ UNCHANGED <<propertyCache, now, sync, reg, lastWrite, raced, probe>>

SerialNext ==
  \/ Publish
  \/ SerialRegister
  \/ \E r \in Runs : SerialSyncAll(r)
  \/ GetProperties
  \/ \E propertyId \in Ids \cup {Missing} : GetReservations(propertyId)
  \/ ClockTick

SerialSpec == SerialInit /\ [][SerialNext]_vars

\* ------------------------------------------------------------------------
\* Steps, as the properties below name them
\* ------------------------------------------------------------------------
\* run r's fetch returns in this step (the snapshot holds each key once,
\* so a run that goes on fetches another property)
ResumeStep(r) ==
  /\ sync[r].pc = "fetching"
  /\ sync'[r].pc = "idle" \/ sync'[r].propertyId # sync[r].propertyId

\* handler h accepts a request in this step, and h's fetch returns in it
AcceptStep(h) == reg[h].pc = "idle" /\ reg'[h].pc = "fetching"
AnswerStep(h) == reg[h].pc = "fetching" /\ reg'[h].pc = "idle"

\* a handler is invoked in this step
CallStep == calls' # calls

\* the positions of run r's remaining keys that for...in would still visit
Visitable(r) ==
  {i \in 1..Len(sync[r].keys) :
     sync[r].stale \/ propertyCache[sync[r].keys[i]] # Undefined}

\* ------------------------------------------------------------------------
\* Properties
\* ------------------------------------------------------------------------
\* C1: when the fetch of a run of syncAll returns and parsing failed (the
\* run logs the property as failed), the whole store is as it was before,
\* and the run goes on: it fetches the next key for...in visits, at that
\* property's current icalUrl, or ends normally when no key is left
C1_FailedSyncIsIsolated ==
  [][\A r \in Runs :
       (ResumeStep(r) /\ lastLog'.mark = "failed") =>
         /\ propertyCache' = propertyCache
         /\ IF Visitable(r) = {}
              THEN /\ sync'[r].pc = "idle"
                   /\ lastOutcome'.status \in {"done", "200"}
              ELSE LET i == CHOOSE x \in Visitable(r) :
                               \A y \in Visitable(r) : x <= y
                       k == sync[r].keys[i]
                   IN /\ sync'[r].pc = "fetching"
                      /\ sync'[r].propertyId = k
                      /\ sync'[r].icalUrl = propertyCache[k].icalUrl
    ]_vars

\* C2: in every state, each stored property's pair (reservations,
\* lastSynced) is the initial pair (empty, unset) or the pair that one
\* write-back of a successful sync stored
C2_PairWrittenTogether ==
  \A p \in Ids :
    propertyCache[p] # Undefined =>
      \/ /\ propertyCache[p].reservations = <<>>
         /\ propertyCache[p].lastSynced = Null
      \/ /\ lastWrite[p] # Null
         /\ propertyCache[p].reservations = lastWrite[p].reservations
         /\ propertyCache[p].lastSynced = lastWrite[p].lastSynced

\* C3: a POST /properties for an id already stored keeps that id's
\* reservations and lastSynced while it overwrites name and icalUrl; for a
\* new id it stores empty reservations and an unset lastSynced; and when
\* the immediate sync fails (500) the store is as it was
C3_RegisterPreservesPair ==
  [][\A h \in Handlers :
       /\ AcceptStep(h) =>
            LET p == reg'[h].propertyId
            IN /\ propertyCache'[p].icalUrl = reg'[h].icalUrl
               /\ IF propertyCache[p] # Undefined
                    THEN /\ propertyCache'[p].reservations =
                              propertyCache[p].reservations
                         /\ propertyCache'[p].lastSynced =
                              propertyCache[p].lastSynced
                    ELSE /\ propertyCache'[p].reservations = <<>>
                         /\ propertyCache'[p].lastSynced = Null
       /\ (AnswerStep(h) /\ lastOutcome'.status = "500") =>
            propertyCache' = propertyCache
    ]_vars

\* C4: once no fetch of a stored property is in flight any more, after a
\* period in which two or more fetches of it were in flight at once, the
\* property holds the reservations of the write-back that ran last and
\* lastSynced is the time of that write-back
C4_LastWriteWins ==
  \A p \in Ids :
    ( /\ p \in raced
      /\ Fetchers(p) = {}
      /\ propertyCache[p] # Undefined
      /\ lastWrite[p] # Null ) =>
        /\ propertyCache[p].reservations = lastWrite[p].reservations
        /\ propertyCache[p].lastSynced = lastWrite[p].lastSynced

\* C5: a POST /sync whose fetches have all returned ends with the success
\* response (status 200): it has no other way to end
C5_ManualSyncAnswers200 ==
  [][(sync["manual"].pc = "fetching" /\ sync'["manual"].pc = "idle") =>
       lastOutcome' = Outcome("POST /sync", "200")
    ]_vars

\* the body has no propertyId, no icalUrl, or an icalUrl that does not
\* begin with https://
BadBody(propertyId, icalUrl) ==
  \/ propertyId = Missing
  \/ icalUrl = Missing
  \/ Len(icalUrl) < 8
  \/ SubSeq(icalUrl, 1, 8) # <<"h","t","t","p","s",":","/","/">>

\* C6: POST /properties accepts no body that lacks propertyId or icalUrl
\* or whose icalUrl is not https: such a request registers nothing and
\* starts no fetch; and the request answered 400 leaves the store, every
\* handler and every run of syncAll as they were
C6_BadBodyRejected ==
  [][/\ ( /\ CallStep
          /\ lastOutcome'.op = "POST /properties"
          /\ lastOutcome'.status = "400" ) =>
            /\ propertyCache' = propertyCache
            /\ reg' = reg
            /\ sync' = sync
     /\ \A h \in Handlers :
          AcceptStep(h) => ~BadBody(reg'[h].propertyId, reg'[h].icalUrl)
    ]_vars

\* C6 witness: a url that is not https was just rejected while property 1
\* is stored
C6_Witness ==
  /\ lastOutcome = Rejected(ErrHttps)
  /\ propertyCache[<<"1">>] # Undefined

\* C7: DELETE of an id the store lacks answers 404 and leaves the store as
\* it was; DELETE of a stored id answers 200, removes that entry and
\* leaves every other entry as it was
C7_DeleteExactlyOne ==
  [][\A p \in Ids :
       ( /\ CallStep
         /\ lastOutcome'.op = "DELETE /properties"
         /\ lastOutcome'.propertyId = p ) =>
           IF propertyCache[p] = Undefined
             THEN /\ lastOutcome'.status = "404"
                  /\ propertyCache' = propertyCache
             ELSE /\ lastOutcome'.status = "200"
                  /\ propertyCache'[p] = Undefined
                  /\ \A q \in Ids \ {p} : propertyCache'[q] = propertyCache[q]
    ]_vars

\* C7 witness: property 1 was just removed and property 2 is still stored
C7_Witness ==
  /\ lastOutcome = Deleted(<<"1">>, "200")
  /\ propertyCache[<<"1">>] = Undefined
  /\ propertyCache[<<"2">>] # Undefined

\* C8: POST /reset answers 200 and leaves the store without entries; and
\* an entry appears in the store only in the step in which POST
\* /properties accepts a request for its id, never by the write-back of a
\* sync in flight
C8_ResetEmptiesAndStaysEmpty ==
  [][/\ (CallStep /\ lastOutcome' = Outcome("POST /reset", "200")) =>
          \A p \in Ids : propertyCache'[p] = Undefined
     /\ \A p \in Ids :
          (propertyCache[p] = Undefined /\ propertyCache'[p] # Undefined) =>
            \E h \in Handlers : AcceptStep(h) /\ reg'[h].propertyId = p
    ]_vars

\* C8 witness: the store is empty after a reset while a run of syncAll
\* that enumerates the replaced store is still fetching
C8_Witness ==
  /\ \A p \in Ids : propertyCache[p] = Undefined
  /\ \E r \in Runs : sync[r].pc = "fetching" /\ sync[r].stale

\* C9: parseIcal returns reservations or the failure value for every feed,
\* never a fault, and the failure value when the fetch fails or the feed
\* does not decode; so a handler that resumes after its fetch faults only
\* because the entry it works on is gone, never because the feed failed: a
\* run of syncAll faults only at a write-back for a missing key or, after
\* a reset, at a next key that is missing; POST /properties faults only at
\* a write-back for a missing key, and answers 500 exactly when parseIcal
\* caught a failure
C9_FailureIsData ==
  [][/\ \A p \in Ids :
          /\ \A f \in AllFetched : parsed[p][f] # Thrown
          /\ parsed[p][FetchFailed] = Null
          /\ parsed[p][Fetched(FeedBadDate)] = Null
     /\ \A r \in Runs :
          (ResumeStep(r) /\ lastOutcome'.status = "fault") =>
            \/ /\ lastLog' = NoLog
               /\ propertyCache[sync[r].propertyId] = Undefined
            \/ /\ sync[r].stale
               /\ sync[r].keys # <<>>
               /\ propertyCache'[Head(sync[r].keys)] = Undefined
     /\ \A h \in Handlers :
          AnswerStep(h) =>
            /\ lastOutcome'.status \in {"200", "500", "fault"}
            /\ lastOutcome'.status = "fault" =>
                 propertyCache[reg[h].propertyId] = Undefined
            /\ lastOutcome'.status = "500" <=> lastLog'.mark = "parse error"
    ]_vars

\* C9 witness: parseIcal caught a failure and POST /properties answered 500
C9_Witness ==
  /\ lastOutcome = Outcome("POST /properties", "500")
  /\ lastLog.mark = "parse error"

\* C10: every reservation in the store has nights >= 1 and
\* checkIn < checkOut
C10_StaysAreAtLeastOneNight ==
  \A p \in Ids :
    propertyCache[p] # Undefined =>
      \A i \in 1..Len(propertyCache[p].reservations) :
        /\ propertyCache[p].reservations[i].nights >= 1
        /\ propertyCache[p].reservations[i].checkIn
             < propertyCache[p].reservations[i].checkOut

\* the reservations a finished call of parseIcal emitted
Emitted ==
  IF probe.out = Pending \/ probe.out = Null
    THEN <<>>
    ELSE probe.out.reservations

\* C11: every reservation parseIcal emits has nights equal to the number
\* of days from its checkIn date to its checkOut date
C11_NightsIsDateDifference ==
  \A i \in 1..Len(Emitted) :
    Emitted[i].nights = Emitted[i].checkOut - Emitted[i].checkIn

\* C12: the reservations parseIcal emits for one feed have pairwise
\* distinct ids
C12_IdsAreDistinct ==
  \A i, j \in 1..Len(Emitted) :
    i # j => Emitted[i].id # Emitted[j].id

\* the one event of a feed that holds a single event, and its summary
ProbedEvent == probe.events[1]
ProbedSummary ==
  IF ProbedEvent.summary = Missing THEN <<>> ELSE ProbedEvent.summary
\* the call has returned for a feed of one event
ProbedOne == probe.out # Pending /\ Len(probe.events) = 1
\* both dates of the event are present and valid
ProbedDated ==
  /\ ProbedEvent.start \notin {NoDate, InvalidDate}
  /\ ProbedEvent.end \notin {NoDate, InvalidDate}

\* the summary, compared without case, contains "not available", or
\* contains "airbnb" and does not contain "reserved"
Blackout(summary) ==
  \/ includes(toLowerCase(summary), <<"n","o","t"," ","a","v","a","i","l","a","b","l","e">>)
  \/ /\ includes(toLowerCase(summary), <<"a","i","r","b","n","b">>)
     /\ ~includes(toLowerCase(summary), <<"r","e","s","e","r","v","e","d">>)

\* C13: an event that is not a VEVENT, or whose summary makes it a
\* blackout, is not emitted; every other event with a start and an end is
\* emitted, with its summary.  "Airbnb (Not available)" is not emitted and
\* "Reserved - Airbnb (HM1234)" is.
C13_BlackoutRule ==
  ProbedOne =>
    /\ IF ProbedEvent.type # "VEVENT" \/ Blackout(ProbedSummary)
         THEN probe.out = Reservations(<<>>)
         ELSE ProbedDated =>
                /\ Len(Emitted) = 1
                /\ Emitted[1].summary = ProbedSummary
    /\ ProbedSummary = <<"A","i","r","b","n","b"," ","(","N","o","t"," ","a","v","a","i","l","a","b","l","e",")">>
         => probe.out = Reservations(<<>>)
    /\ ( /\ ProbedSummary = <<"R","e","s","e","r","v","e","d"," ","-"," ","A","i","r","b","n","b"," ","(","H","M","1","2","3","4",")">>
         /\ ProbedEvent.type = "VEVENT"
         /\ ProbedDated ) => Len(Emitted) = 1

\* C13 witness: a VEVENT with dates whose summary holds both "reserved"
\* and "not available" was skipped
C13_Witness ==
  /\ ProbedOne
  /\ ProbedEvent.type = "VEVENT"
  /\ ProbedDated
  /\ ProbedSummary = <<"R","e","s","e","r","v","e","d"," ","(","N","o","t"," ","a","v","a","i","l","a","b","l","e",")">>
  /\ probe.out = Reservations(<<>>)

\* C14: no reservation parseIcal emits has an empty guestName
C14_GuestNameNeverEmpty ==
  \A i \in 1..Len(Emitted) : Emitted[i].guestName # <<>>

\* C15: the guestName of an emitted reservation is the trimmed text after
\* "reserved -" in the summary when the summary has that pattern,
\* whatever the description; else the trimmed text after "guest:" or
\* "name:" in the description when it has one; else "Airbnb Guest".
\* "Reserved - Jane Doe" gives "Jane Doe", "Reserved - Airbnb (HM1234)"
\* gives "Airbnb (HM1234)", and "Stay" without a labelled description
\* gives "Airbnb Guest".
C15_GuestNamePriority ==
  (ProbedOne /\ Len(Emitted) = 1) =>
    /\ IF reservedMatch(ProbedSummary) # Missing
         THEN Emitted[1].guestName = trim(reservedMatch(ProbedSummary))
         ELSE IF /\ ProbedEvent.description # Missing
                 /\ descMatch(ProbedEvent.description) # Missing
           THEN Emitted[1].guestName =
                  trim(descMatch(ProbedEvent.description))
           ELSE Emitted[1].guestName = <<"A","i","r","b","n","b"," ","G","u","e","s","t">>
    /\ ProbedSummary = <<"R","e","s","e","r","v","e","d"," ","-"," ","J","a","n","e"," ","D","o","e">>
         => Emitted[1].guestName = <<"J","a","n","e"," ","D","o","e">>
    /\ ProbedSummary = <<"R","e","s","e","r","v","e","d"," ","-"," ","A","i","r","b","n","b"," ","(","H","M","1","2","3","4",")">>
         => Emitted[1].guestName = <<"A","i","r","b","n","b"," ","(","H","M","1","2","3","4",")">>
    /\ ( /\ ProbedSummary = <<"S","t","a","y">>
         /\ ProbedEvent.description \in {Missing, <<"P","h","o","n","e",":"," ","1">>} )
         => Emitted[1].guestName = <<"A","i","r","b","n","b"," ","G","u","e","s","t">>

\* C15 witness: "Reserved - Jane Doe" with the description "Guest: Bob"
\* was emitted for Jane Doe
C15_Witness ==
  /\ ProbedOne
  /\ Len(Emitted) = 1
  /\ ProbedSummary = <<"R","e","s","e","r","v","e","d"," ","-"," ","J","a","n","e"," ","D","o","e">>
  /\ ProbedEvent.description = <<"G","u","e","s","t",":"," ","B","o","b">>
  /\ Emitted[1].guestName = <<"J","a","n","e"," ","D","o","e">>

\* the steps of the serial runs: a register request, a run of syncAll and
\* the two listings, each from its start to its end
RegisterStep == CallStep /\ lastOutcome'.op = "POST /properties"
SyncAllStep == CallStep /\ lastOutcome'.op \in {OpOf(r) : r \in Runs}
GetPropertiesStep == CallStep /\ lastOutcome'.op = "GET /properties"
GetReservationsStep == CallStep /\ lastOutcome'.op = "GET /reservations"

\* the document was fetched and none of its entries is a VEVENT other than
\* a blackout
NoBookings(fetched) ==
  /\ fetched # FetchFailed
  /\ \A i \in 1..Len(fetched.events) :
       \/ fetched.events[i].type # "VEVENT"
       \/ Blackout(summaryOf(fetched.events[i]))

\* C16: for a document that is fetched and holds no booking, parseIcal
\* returns the empty list; a register request then answers 200 with
\* reservationCount 0 and a run of syncAll logs the property as synced with
\* 0 reservations, and either leaves the property with no reservations
\* and lastSynced at the time of the sync
C16_EmptyFeedIsSuccess ==
  [][LET p == probe.propertyId
     IN NoBookings(probe.fetched) =>
          /\ parseIcal(probe.fetched, p, probe.name) = Reservations(<<>>)
          /\ RegisterStep =>
               /\ lastOutcome' = Registered(p, 0, Stamp(now))
               /\ propertyCache'[p].reservations = <<>>
               /\ propertyCache'[p].lastSynced = Stamp(now)
          /\ (SyncAllStep /\ propertyCache[p] # Undefined) =>
               /\ lastLog' = [mark |-> "ok", name |-> propertyCache[p].name,
                              count |-> 0]
               /\ propertyCache'[p].reservations = <<>>
               /\ propertyCache'[p].lastSynced = Stamp(now)
    ]_vars

\* a run of syncAll at time 1 has emptied the property, whose feed now
\* holds a blackout and a time zone entry only
C16_Witness ==
  /\ probe.fetched = Fetched(FeedBlackout)
  /\ lastLog = [mark |-> "ok", name |-> NameLoft, count |-> 0]
  /\ propertyCache[<<"1">>] # Undefined
  /\ propertyCache[<<"1">>].reservations = <<>>
  /\ propertyCache[<<"1">>].lastSynced = Stamp(1)
  /\ lastWrite[<<"1">>] = [reservations |-> <<>>, lastSynced |-> Stamp(1)]

\* C17: a sync that writes back when an earlier sync has written back
\* since the feed last changed stores the sequence of reservations the
\* earlier one stored
C17_SecondSyncStoresTheSame ==
  [][(CallStep /\ probe'.synced > probe.synced /\ probe.synced >= 1) =>
       /\ lastWrite[probe.propertyId] # Null
       /\ propertyCache'[probe.propertyId].reservations
            = lastWrite[probe.propertyId].reservations
    ]_vars

\* the feed at UrlA was synced twice; the property holds its two bookings,
\* the second one under the id made from the property id and the check-in
C17_Witness ==
  /\ probe.fetched = Fetched(FeedA)
  /\ probe.propertyId = <<"1">>
  /\ probe.synced >= 2
  /\ Len(propertyCache[<<"1">>].reservations) = 2
  /\ propertyCache[<<"1">>].reservations[1].id = <<"u","1">>
  /\ propertyCache[<<"1">>].reservations[2].id # <<"u","1">>

\* C18: no fetch that returns makes its handler fault: a run of syncAll
\* goes on or ends normally, and POST /properties answers 200 or 500
C18_WriteBackNeverFaults ==
  [][/\ \A r \in Runs :
          ResumeStep(r) => lastOutcome'.status # "fault"
     /\ \A h \in Handlers :
          AnswerStep(h) => lastOutcome'.status \in {"200", "500"}
    ]_vars

\* C19: once no fetch of a property is in flight, a property that was
\* synced since it was registered with its current icalUrl holds
\* reservations parsed from a document of that icalUrl
C19_ReservationsMatchUrl ==
  \A p \in Ids :
    ( /\ propertyCache[p] # Undefined
      /\ Fetchers(p) = {}
      /\ propertyCache[p].lastSynced # Null ) =>
        \E f \in Published(propertyCache[p].icalUrl) :
          parsed[p][f] = Reservations(propertyCache[p].reservations)

\* C20: a register request for an id the store does not hold that is
\* answered 500 leaves the id in the store with the url and the name of
\* the request, no reservations and lastSynced null; a run of syncAll
\* fetches every property the store holds and logs its outcome; and both
\* listings report every property the store holds, with its name, its
\* lastSynced and the number of its reservations
C20_FailedRegisterStaysRegistered ==
  [][LET p == probe.propertyId
         stored == {q \in Ids : propertyCache[q] # Undefined}
         line(q) == [propertyId |-> q, name |-> propertyCache[q].name,
                     lastSynced |-> propertyCache[q].lastSynced,
                     reservationCount |->
                       Len(propertyCache[q].reservations)]
     IN /\ ( /\ RegisterStep
             /\ propertyCache[p] = Undefined
             /\ lastOutcome'.status = "500" ) =>
               propertyCache'[p] =
                 [icalUrl |-> UrlA,
                  name |-> IF probe.name = Missing
                             THEN <<"P","r","o","p","e","r","t","y"," ">> \o p
                             ELSE probe.name,
                  reservations |-> <<>>,
                  lastSynced |-> Null]
        /\ SyncAllStep =>
             \A q \in stored :
               /\ lastLog'.mark \in {"ok", "failed"}
               /\ lastLog'.name = propertyCache[q].name
        /\ GetPropertiesStep =>
             /\ Len(lastOutcome'.properties) = Cardinality(stored)
             /\ \A q \in stored :
                  \E i \in 1..Len(lastOutcome'.properties) :
                    lastOutcome'.properties[i] = line(q)
        /\ GetReservationsStep =>
             /\ lastOutcome'.totalProperties = Cardinality(stored)
             /\ \A q \in stored :
                  \E i \in 1..Len(lastOutcome'.syncStatus) :
                    lastOutcome'.syncStatus[i] = line(q)
    ]_vars

\* property 1 was registered while its url could not be fetched, no sync
\* of it has succeeded since, and GET /properties lists it
C20_Witness ==
  /\ lastOutcome.op = "GET /properties"
  /\ lastOutcome.properties =
       << [propertyId |-> <<"1">>,
           name |-> <<"P","r","o","p","e","r","t","y"," ","1">>,
           lastSynced |-> Null, reservationCount |-> 0] >>
  /\ lastWrite[<<"1">>] = Null
  /\ propertyCache[<<"1">>] # Undefined
  /\ propertyCache[<<"1">>].icalUrl = UrlA
  /\ probe.fetched = FetchFailed

====
